---- MODULE Spec2Model ----
(***************************************************************************)
(* Model of the tagged-base64 crate (src/lib.rs).                          *)
(*                                                                         *)
(* Strings and byte vectors are sequences of byte values 0..255 (a Rust    *)
(* String is its UTF-8 bytes; every character the code inspects is ASCII). *)
(* A Result is a record [kind, tb64, str]: kind is "Ok", the name of the   *)
(* error, or "panic" when the call aborts instead of returning.            *)
(***************************************************************************)
EXTENDS Integers, Sequences, FiniteSets, TLC

(* ------------------------------ bounds --------------------------------- *)
MaxTagLen == 2
MaxValLen == 2
MaxStrLen == 3

\* 'T' and '+': one character of the tag alphabet, one outside it.
TagChars == {84, 43}
\* Payload bytes exercised.
ByteVals == {1, 255}
\* 'A' (sextet 0), 'Q' (sextet 16), '~' (delimiter), '+' (not URL-safe).
\* '=' is not exercised: the padding rules of the decoder are not modelled.
StrChars == {65, 81, 126, 43}

RECURSIVE SeqsUpTo(_, _)
SeqsUpTo(S, n) ==
    IF n = 0 THEN {<<>>}
    ELSE LET shorter == SeqsUpTo(S, n - 1)
         IN  shorter \cup {Append(s, c) : s \in shorter, c \in S}

Tags == SeqsUpTo(TagChars, MaxTagLen)
Values == SeqsUpTo(ByteVals, MaxValLen)
Strings == SeqsUpTo(StrChars, MaxStrLen)

(* --------------------------- constants --------------------------------- *)
\* pub const TB64_DELIM: char = '~';
TB64_DELIM == 126
\* CRC::crc8(): CRC-8, polynomial 0x07, initial value 0, not reflected,
\* final xor 0.
CRC8_POLY == 7
CRC8_INIT == 0
\* Entry of the base64 decode table for a byte outside the alphabet.
INVALID_VALUE == 255

(* ------------------------------ results -------------------------------- *)
\* "No instance": the value of the tb64 field of a failed Result.
NoTB64 == [tag |-> <<>>, value |-> <<>>, checksum |-> -1]

Ok(t) == [kind |-> "Ok", tb64 |-> t, str |-> <<>>]
Err(e) == [kind |-> e, tb64 |-> NoTB64, str |-> <<>>]

(* ------------------------------- CRC-8 --------------------------------- *)
Bit(x, i) == (x \div (2 ^ i)) % 2

Xor8(a, b) ==
    LET X(i) == ((Bit(a, i) + Bit(b, i)) % 2) * (2 ^ i)
    IN  X(0) + X(1) + X(2) + X(3) + X(4) + X(5) + X(6) + X(7)

RECURSIVE Crc8Shift(_, _)
Crc8Shift(crc, n) ==
    IF n = 0 THEN crc
    ELSE Crc8Shift(IF crc >= 128
                   THEN Xor8((crc * 2) % 256, CRC8_POLY)
                   ELSE (crc * 2) % 256,
                   n - 1)

Crc8Table == [x \in 0..255 |-> Crc8Shift(x, 8)]

RECURSIVE digest(_, _)
digest(crc, data) ==
    IF data = <<>> THEN crc
    ELSE digest(Crc8Table[Xor8(crc, Head(data))], Tail(data))

calc_checksum_TagOnly(tag, value) == digest(CRC8_INIT, tag) % 256

calc_checksum(tag, value) ==
    digest(digest(CRC8_INIT, tag), value) % 256

(* --------------------------- tag validation ---------------------------- *)
is_safe_base64_ascii_Plus(c) ==
    \/ c \in 97..122
    \/ c \in 65..90
    \/ c \in 48..57
    \/ c = 45
    \/ c = 95
    \/ c = 43

is_safe_base64_ascii(c) ==
    \/ c \in 97..122
    \/ c \in 65..90
    \/ c \in 48..57
    \/ c = 45
    \/ c = 95

RECURSIVE SkipWhileSafe(_)
SkipWhileSafe(bytes) ==
    IF bytes # <<>> /\ is_safe_base64_ascii(Head(bytes))
    THEN SkipWhileSafe(Tail(bytes))
    ELSE bytes

is_safe_base64_tag(tag) == SkipWhileSafe(tag) = <<>>

(* ------------------------------ base64 --------------------------------- *)
\* URL_SAFE_NO_PAD: A-Z a-z 0-9 - _ ; no '=' is emitted.
B64Char(v) ==
    IF v < 26 THEN 65 + v
    ELSE IF v < 52 THEN 97 + (v - 26)
    ELSE IF v < 62 THEN 48 + (v - 52)
    ELSE IF v = 62 THEN 45
    ELSE 95

B64Val(c) ==
    IF c \in 65..90 THEN c - 65
    ELSE IF c \in 97..122 THEN c - 97 + 26
    ELSE IF c \in 48..57 THEN c - 48 + 52
    ELSE IF c = 45 THEN 62
    ELSE IF c = 95 THEN 63
    ELSE INVALID_VALUE

RECURSIVE encode_raw(_)
encode_raw(input) ==
    IF Len(input) = 0 THEN <<>>
    ELSE IF Len(input) = 1 THEN
        << B64Char(input[1] \div 4),
           B64Char((input[1] % 4) * 16) >>
    ELSE IF Len(input) = 2 THEN
        << B64Char(input[1] \div 4),
           B64Char((input[1] % 4) * 16 + input[2] \div 16),
           B64Char((input[2] % 16) * 4) >>
    ELSE
        << B64Char(input[1] \div 4),
           B64Char((input[1] % 4) * 16 + input[2] \div 16),
           B64Char((input[2] % 16) * 4 + input[3] \div 64),
           B64Char(input[3] % 64) >>
        \o encode_raw(SubSeq(input, 4, Len(input)))

\* The bytes of a text whose symbols are all in the alphabet and whose
\* length is not 1 modulo 4.
RECURSIVE DecodeSextets(_)
DecodeSextets(text) ==
    LET s(i) == B64Val(text[i])
    IN  IF Len(text) = 0 THEN <<>>
        ELSE IF Len(text) = 2 THEN
            << s(1) * 4 + s(2) \div 16 >>
        ELSE IF Len(text) = 3 THEN
            << s(1) * 4 + s(2) \div 16,
               (s(2) % 16) * 16 + s(3) \div 4 >>
        ELSE
            << s(1) * 4 + s(2) \div 16,
               (s(2) % 16) * 16 + s(3) \div 4,
               (s(3) % 4) * 64 + s(4) >>
            \o DecodeSextets(SubSeq(text, 5, Len(text)))

\* The bits of the last symbol that belong to no decoded byte.
TrailingBits(text) ==
    IF Len(text) % 4 = 2 THEN B64Val(text[Len(text)]) % 16
    ELSE IF Len(text) % 4 = 3 THEN B64Val(text[Len(text)]) % 4
    ELSE 0

\* Result<Vec<u8>, JsValue>: [kind, bytes].
decode_raw(value) ==
    IF \E i \in 1..Len(value) : B64Val(value[i]) = INVALID_VALUE
    THEN [kind |-> "InvalidByte", bytes |-> <<>>]
    ELSE IF Len(value) % 4 = 1
    THEN [kind |-> "InvalidLength", bytes |-> <<>>]
    ELSE IF TrailingBits(value) # 0
    THEN [kind |-> "InvalidLastSymbol", bytes |-> <<>>]
    ELSE [kind |-> "Ok", bytes |-> DecodeSextets(value)]

(* ----------------------------- formatters ------------------------------ *)
\* The stored checksum field in place of the recomputed one.
to_string_Stored(t) ==
    t.tag \o <<TB64_DELIM>> \o encode_raw(Append(t.value, t.checksum))

\* pub fn to_string(tb64: &TaggedBase64) -> String
to_string(t) ==
    LET value == Append(t.value, calc_checksum(t.tag, t.value))
    IN  t.tag \o <<TB64_DELIM>> \o encode_raw(value)

\* impl From<&TaggedBase64> for String
string_from(t) ==
    LET value == Append(t.value, calc_checksum(t.tag, t.value))
    IN  t.tag \o <<TB64_DELIM>> \o encode_raw(value)

\* impl fmt::Display for TaggedBase64
display_fmt(t) ==
    LET value == Append(t.value, calc_checksum(t.tag, t.value))
    IN  t.tag \o <<TB64_DELIM>> \o encode_raw(value)

(* ---------------------------- constructors ----------------------------- *)
\* TaggedBase64::new
TaggedBase64_new(tag, value) ==
    IF is_safe_base64_tag(tag)
    THEN Ok([tag |-> tag, value |-> value,
             checksum |-> calc_checksum(tag, value)])
    ELSE Err("InvalidTag")

\* JsTaggedBase64::new: the same, the error being a JsValue message.
JsTaggedBase64_new(tag, value) ==
    IF is_safe_base64_tag(tag)
    THEN Ok([tag |-> tag, value |-> value,
             checksum |-> calc_checksum(tag, value)])
    ELSE Err("InvalidTag")

(* ------------------------------- parsing ------------------------------- *)
\* str::find with the missing delimiter taken for position 0.
find_OrStart(s, c) ==
    IF \E i \in 1..Len(s) : s[i] = c
    THEN CHOOSE i \in 1..Len(s) : s[i] = c /\ \A j \in 1..(i - 1) : s[j] # c
    ELSE 1

\* str::find: the 1-based position of the first c in s, 0 for None.
find(s, c) ==
    IF \E i \in 1..Len(s) : s[i] = c
    THEN CHOOSE i \in 1..Len(s) : s[i] = c /\ \A j \in 1..(i - 1) : s[j] # c
    ELSE 0

\* The comparison made against the whole frame instead of bytes[1..].
checksum_ok_WholeFrame(cs, tag, payload) ==
    cs = calc_checksum(tag, <<cs>> \o payload)

\* cs == TaggedBase64::calc_checksum(&tag, &bytes[1..])
checksum_ok(cs, tag, payload) == cs = calc_checksum(tag, payload)

\* JsTaggedBase64::tagged_base64_from
tagged_base64_from(s) ==
    LET delim_pos == find(s, TB64_DELIM)
        tag       == SubSeq(s, 1, delim_pos - 1)
        delim_b64 == SubSeq(s, delim_pos, Len(s))
        value     == SubSeq(delim_b64, 2, Len(delim_b64))
        decoded   == decode_raw(value)
        bytes     == decoded.bytes
    IN  IF delim_pos = 0 THEN Err("MissingDelimiter")
        ELSE IF ~is_safe_base64_tag(tag) THEN Err("InvalidTag")
        ELSE IF decoded.kind # "Ok" THEN Err(decoded.kind)
        ELSE IF bytes = <<>> THEN Err("panic")    \* bytes[0] out of bounds
        ELSE IF checksum_ok(bytes[1], tag, Tail(bytes))
        THEN Ok([tag |-> tag, value |-> Tail(bytes), checksum |-> bytes[1]])
        ELSE Err("InvalidChecksum")

\* JsTaggedBase64::make_tagged_base64
make_tagged_base64(tag, value) ==
    LET decoded == decode_raw(value)
        bytes   == decoded.bytes
    IN  IF ~is_safe_base64_tag(tag) THEN Err("InvalidTag")
        ELSE IF decoded.kind # "Ok" THEN Err(decoded.kind)
        ELSE IF bytes = <<>> THEN Err("panic")    \* bytes[0] out of bounds
        ELSE IF checksum_ok(bytes[1], tag, Tail(bytes))
        THEN Ok([tag |-> tag, value |-> Tail(bytes), checksum |-> bytes[1]])
        ELSE Err("InvalidChecksum")

(* ------------------------------ mutators ------------------------------- *)
\* TaggedBase64::set_tag: the assert aborts the call before the assignment.
set_tag(self, tag) ==
    IF ~is_safe_base64_tag(tag)
    THEN [kind |-> "panic", tb64 |-> self, str |-> <<>>]
    ELSE Ok([self EXCEPT !.tag = tag])

\* TaggedBase64::set_value
set_value(self, value) == Ok([self EXCEPT !.value = value])

(* ------------------------------- state --------------------------------- *)
VARIABLES
    tb64,   \* the instance the caller holds (NoTB64: none)
    call,   \* the last call: [op, tag, value, str, src, orig]
    ret,    \* what the last call returned: [kind, tb64, str]
    pre     \* the instance before a set_tag call, or the instance whose
            \* formatting is being parsed back; NoTB64 otherwise

vars == <<tb64, call, ret, pre>>

\* orig: the accepted string of which str is a corruption (src "corrupted").
Call(op, tag, value, str, src) ==
    [op |-> op, tag |-> tag, value |-> value, str |-> str, src |-> src,
     orig |-> <<>>]

NoCall == Call("none", <<>>, <<>>, <<>>, "none")

Formatters == {"to_string", "string_from", "display_fmt"}
Parsers == {"tagged_base64_from", "make_tagged_base64"}

\* The text after the first delimiter of a string that has one.
B64Part(s) == SubSeq(s, find(s, TB64_DELIM) + 1, Len(s))
TagPart(s) == SubSeq(s, 1, find(s, TB64_DELIM) - 1)

\* Strings in the layout the parser reads: checksum byte first.
WireStrings ==
    { tag \o <<TB64_DELIM>> \o encode_raw(<<calc_checksum(tag, v)>> \o v) :
        tag \in {x \in Tags : is_safe_base64_tag(x)}, v \in Values }

FromInputs == Strings \cup WireStrings

\* (tag, text) arguments of make_tagged_base64.
MakeInputs ==
    { <<TagPart(s), B64Part(s)>> : s \in {x \in FromInputs : find(x, TB64_DELIM) # 0} }
    \cup { <<tag, <<65, 65>> >> : tag \in Tags }

\* frame with bit k of its i-th byte inverted.
FlipBit(frame, i, k) ==
    [frame EXCEPT ![i] = IF Bit(frame[i], k) = 1
                         THEN frame[i] - 2 ^ k
                         ELSE frame[i] + 2 ^ k]

\* The strings that differ from the accepted string s in exactly one bit
\* of the decoded frame, the tag kept.
Corruptions(s) ==
    LET frame == decode_raw(B64Part(s)).bytes
    IN  { TagPart(s) \o <<TB64_DELIM>> \o encode_raw(FlipBit(frame, i, k)) :
            i \in 1..Len(frame), k \in 0..7 }

Init ==
    /\ tb64 = NoTB64
    /\ call = NoCall
    /\ ret = Err("none")
    /\ pre = NoTB64

\* The caller drops what it holds and starts over.  The constructors and
\* parsers below do not read the instance held nor the last result, so
\* their fresh inputs are enumerated from this state only.
Reset ==
    /\ call.op # "none"
    /\ tb64' = NoTB64
    /\ call' = NoCall
    /\ ret' = Err("none")
    /\ pre' = NoTB64

CallNew ==
    /\ call.op = "none"
    /\ \E tag \in Tags, value \in Values :
        /\ call' = Call("new", tag, value, <<>>, "input")
        /\ ret' = TaggedBase64_new(tag, value)
    /\ tb64' = ret'.tb64
    /\ pre' = NoTB64

CallJsNew ==
    /\ call.op = "none"
    /\ \E tag \in Tags, value \in Values :
        /\ call' = Call("js_new", tag, value, <<>>, "input")
        /\ ret' = JsTaggedBase64_new(tag, value)
    /\ tb64' = ret'.tb64
    /\ pre' = NoTB64

\* tagged_base64_from on a fresh input.
CallFrom ==
    /\ call.op = "none"
    /\ \E s \in FromInputs :
        /\ call' = Call("tagged_base64_from", <<>>, <<>>, s, "input")
        /\ ret' = tagged_base64_from(s)
    /\ tb64' = ret'.tb64
    /\ pre' = NoTB64

\* tagged_base64_from on the string a formatter has just returned.
CallFromFormatted ==
    /\ call.op \in Formatters
    /\ call' = Call("tagged_base64_from", <<>>, <<>>, ret.str, "formatted")
    /\ ret' = tagged_base64_from(ret.str)
    /\ tb64' = ret'.tb64
    /\ pre' = tb64

\* tagged_base64_from on a one-bit corruption of the string just accepted.
CallFromCorrupted ==
    /\ call.op = "tagged_base64_from"
    /\ call.src = "input"
    /\ ret.kind = "Ok"
    /\ \E s \in Corruptions(call.str) :
        /\ call' = [Call("tagged_base64_from", <<>>, <<>>, s, "corrupted")
                        EXCEPT !.orig = call.str]
        /\ ret' = tagged_base64_from(s)
    /\ tb64' = ret'.tb64
    /\ pre' = NoTB64

CallMake ==
    /\ call.op = "none"
    /\ \E a \in MakeInputs :
        /\ call' = Call("make_tagged_base64", a[1], <<>>, a[2], "input")
        /\ ret' = make_tagged_base64(a[1], a[2])
    /\ tb64' = ret'.tb64
    /\ pre' = NoTB64

CallSetTag ==
    /\ tb64 # NoTB64
    /\ \E tag \in Tags :
        /\ call' = Call("set_tag", tag, <<>>, <<>>, "input")
        /\ ret' = set_tag(tb64, tag)
    /\ tb64' = ret'.tb64
    /\ pre' = tb64

CallSetValue ==
    /\ tb64 # NoTB64
    /\ \E value \in Values :
        /\ call' = Call("set_value", <<>>, value, <<>>, "input")
        /\ ret' = set_value(tb64, value)
    /\ tb64' = ret'.tb64
    /\ pre' = NoTB64

CallToString ==
    /\ tb64 # NoTB64
    /\ call' = Call("to_string", <<>>, <<>>, <<>>, "input")
    /\ ret' = [kind |-> "Ok", tb64 |-> NoTB64, str |-> to_string(tb64)]
    /\ pre' = NoTB64
    /\ UNCHANGED tb64

CallStringFrom ==
    /\ tb64 # NoTB64
    /\ call' = Call("string_from", <<>>, <<>>, <<>>, "input")
    /\ ret' = [kind |-> "Ok", tb64 |-> NoTB64, str |-> string_from(tb64)]
    /\ pre' = NoTB64
    /\ UNCHANGED tb64

CallDisplay ==
    /\ tb64 # NoTB64
    /\ call' = Call("display_fmt", <<>>, <<>>, <<>>, "input")
    /\ ret' = [kind |-> "Ok", tb64 |-> NoTB64, str |-> display_fmt(tb64)]
    /\ pre' = NoTB64
    /\ UNCHANGED tb64

Next ==
    \/ Reset
    \/ CallNew
    \/ CallJsNew
    \/ CallFrom
    \/ CallFromFormatted
    \/ CallFromCorrupted
    \/ CallMake
    \/ CallSetTag
    \/ CallSetValue
    \/ CallToString
    \/ CallStringFrom
    \/ CallDisplay

Spec == Init /\ [][Next]_vars

(***************************************************************************)
(* Properties.                                                             *)
(***************************************************************************)
\* The tag alphabet [A-Za-z0-9_-], written out.
TagAlphabet == (65..90) \cup (97..122) \cup (48..57) \cup {45, 95}

HasUnsafeChar(tag) == \E i \in 1..Len(tag) : tag[i] \notin TagAlphabet

HasDelim(s) == \E i \in 1..Len(s) : s[i] = 126

\* The tag and the base64 text the last parser call was given.
ParsedTag == IF call.op = "make_tagged_base64" THEN call.tag ELSE TagPart(call.str)
ParsedText == IF call.op = "make_tagged_base64" THEN call.str ELSE B64Part(call.str)

\* The last call is a parser call that got past the delimiter, the tag and
\* the base64 decoder.
ParsedFrame ==
    /\ call.op \in Parsers
    /\ call.op = "tagged_base64_from" => HasDelim(call.str)
    /\ ~HasUnsafeChar(ParsedTag)
    /\ decode_raw(ParsedText).kind = "Ok"

Frame == decode_raw(ParsedText).bytes

RemoveAt(s, i) == SubSeq(s, 1, i - 1) \o SubSeq(s, i + 1, Len(s))

\* The number of bit positions in which two byte sequences of one length
\* differ.
BitDistance(a, b) ==
    Cardinality({ <<i, k>> \in (1..Len(a)) \X (0..7) : Bit(a[i], k) # Bit(b[i], k) })

\* C1 (as claimed): parsing the string a formatter returned for an instance
\* succeeds and returns construct(tag, bytes): same tag, payload, checksum.
C1_RoundTrip ==
    (call.op = "tagged_base64_from" /\ call.src = "formatted")
        => ret = TaggedBase64_new(pre.tag, pre.value)

\* C2 (as claimed): the stored checksum of the instance held equals
\* calc_checksum of its current tag and value.
C2_ChecksumDerived ==
    tb64 # NoTB64 => tb64.checksum = calc_checksum(tb64.tag, tb64.value)

\* C3: when a parser (tagged_base64_from, make_tagged_base64) decodes a
\* non-empty frame, it fails with the invalid-checksum error and produces no
\* instance if the first byte differs from calc_checksum(tag, rest), and it
\* returns an instance only if the two are equal.
C3_ChecksumVerified ==
    (ParsedFrame /\ Frame # <<>>) =>
        IF Frame[1] # calc_checksum(ParsedTag, Tail(Frame))
        THEN ret = Err("InvalidChecksum") /\ tb64 = NoTB64
        ELSE ret = Ok([tag |-> ParsedTag, value |-> Tail(Frame), checksum |-> Frame[1]])

C3_Witness ==
    /\ ParsedFrame
    /\ Len(Frame) >= 2
    /\ Frame[1] # calc_checksum(ParsedTag, Tail(Frame))
    /\ ret.kind = "InvalidChecksum"

\* C4 (as claimed): every formatter returns tag ++ "~" ++ base64url_nopad of
\* the checksum byte followed by the payload bytes.
C4_ChecksumPrepended ==
    call.op \in Formatters =>
        ret.str = tb64.tag \o <<126>>
                    \o encode_raw(<<calc_checksum(tb64.tag, tb64.value)>> \o tb64.value)

\* C5 (as claimed): a parser given a text that decodes to zero bytes returns
\* the InvalidLength error.
C5_EmptyFrameInvalidLength ==
    (ParsedFrame /\ Frame = <<>>) => ret = Err("InvalidLength")

\* C6: a tag with a character outside [A-Za-z0-9_-] makes new fail with
\* InvalidTag whatever the bytes, and makes a parser fail with the invalid-tag
\* error whatever follows the delimiter; new never fails on a tag whose
\* characters are all in the alphabet.
C6_TagRejection ==
    /\ call.op \in {"new", "js_new"} =>
        IF HasUnsafeChar(call.tag)
        THEN ret = Err("InvalidTag") /\ tb64 = NoTB64
        ELSE ret.kind = "Ok" /\ ret.tb64.tag = call.tag /\ ret.tb64.value = call.value
    /\ (/\ call.op \in Parsers
        /\ call.op = "tagged_base64_from" => HasDelim(call.str)
        /\ HasUnsafeChar(ParsedTag))
        => ret = Err("InvalidTag") /\ tb64 = NoTB64

C6_Witness ==
    /\ call.op = "tagged_base64_from"
    /\ HasDelim(call.str)
    /\ HasUnsafeChar(ParsedTag)
    /\ decode_raw(ParsedText).kind # "Ok"
    /\ ret.kind = "InvalidTag"

\* C7: tagged_base64_from on a string without '~' fails with the
\* missing-delimiter error and produces no instance.
C7_MissingDelimiter ==
    (call.op = "tagged_base64_from" /\ ~HasDelim(call.str))
        => ret = Err("MissingDelimiter") /\ tb64 = NoTB64

C7_Witness ==
    /\ call.op = "tagged_base64_from"
    /\ ~HasDelim(call.str)
    /\ Len(call.str) >= 2
    /\ decode_raw(call.str).kind = "Ok"
    /\ ret.kind = "MissingDelimiter"

\* C8: a string that differs from an accepted string in exactly one bit of
\* the decoded frame, with the same tag, fails to parse with the
\* invalid-checksum error.
C8_SingleBitDetected ==
    (/\ call.op = "tagged_base64_from"
     /\ call.src = "corrupted"
     /\ TagPart(call.str) = TagPart(call.orig)
     /\ BitDistance(Frame, decode_raw(B64Part(call.orig)).bytes) = 1)
        => ret = Err("InvalidChecksum") /\ tb64 = NoTB64

\* A payload bit was inverted, the checksum byte left as it was.
C8_Witness ==
    /\ call.op = "tagged_base64_from"
    /\ call.src = "corrupted"
    /\ TagPart(call.str) # <<>>
    /\ BitDistance(Frame, decode_raw(B64Part(call.orig)).bytes) = 1
    /\ Frame[1] = decode_raw(B64Part(call.orig)).bytes[1]
    /\ ret.kind = "InvalidChecksum"

\* C9 (as claimed): set_tag with a tag outside the alphabet returns an error
\* to the caller and leaves the instance as it was.
C9_SetTagRejects ==
    (call.op = "set_tag" /\ HasUnsafeChar(call.tag))
        => ret.kind = "InvalidTag" /\ tb64 = pre

\* C10: whatever set_tag and set_value calls came before, a formatter
\* returns the string it returns for new(current tag, current value), and the
\* decoded frame of that string is the current value with
\* calc_checksum(current tag, current value) as its one extra byte.
C10_FormatCurrent ==
    call.op \in Formatters =>
        LET fresh == TaggedBase64_new(tb64.tag, tb64.value).tb64
            frame == decode_raw(B64Part(ret.str)).bytes
        IN  /\ call.op = "to_string" => ret.str = to_string(fresh)
            /\ call.op = "string_from" => ret.str = string_from(fresh)
            /\ call.op = "display_fmt" => ret.str = display_fmt(fresh)
            /\ TagPart(ret.str) = tb64.tag
            /\ \E i \in 1..Len(frame) :
                /\ frame[i] = calc_checksum(tb64.tag, tb64.value)
                /\ RemoveAt(frame, i) = tb64.value

\* A formatter ran on an instance whose stored checksum is stale.
C10_Witness ==
    /\ call.op = "to_string"
    /\ tb64.checksum # calc_checksum(tb64.tag, tb64.value)
    /\ tb64.value # <<>>

====
